---- MODULE Spec2Model ----
(***************************************************************************)
(* Model of backend/utils/summarize.py: validate_access_permissions,        *)
(* generate_summary_content and process_summary_generation, run by two      *)
(* request workers against one database and one completion provider.        *)
(* A worker's step is the code between two blocking external calls.         *)
(***************************************************************************)
EXTENDS Integers, Sequences, FiniteSets, TLC

\* ------------------------------------------------------------------ bounds
MaxInvocations == 2      \* invocations of process_summary_generation started
MaxRemovals == 1         \* transcript rows removed by another actor

Workers == {"w1", "w2"}
TranscriptIds == {1, 2}
VideoIds == {11}
MinutesIds == {21}

\* ------------------------------------------------------------ identifiers
\* A user id is a Python int or a Python str (a sequence of digit characters).
IntId(n) == [kind |-> "int", n |-> n, s |-> <<>>]
StrId(s) == [kind |-> "str", n |-> 0, s |-> s]

OwnerIds == {IntId(12), IntId(1)}
RequesterIds == {StrId(<<1, 2>>), IntId(12), StrId(<<0, 1>>)}

RECURSIVE Digits(_)
Digits(n) == IF n < 10 THEN <<n>> ELSE Digits(n \div 10) \o <<n % 10>>

\* Python's str(): the decimal digits of an int, a str unchanged.
str(v) == IF v.kind = "int" THEN Digits(v.n) ELSE v.s

RECURSIVE Value(_)
Value(s) == IF s = <<>> THEN 0 ELSE 10 * Value(SubSeq(s, 1, Len(s) - 1)) + s[Len(s)]

\* ------------------------------------------------------------- exceptions
HTTPException(status_code, detail) ==
    [http |-> TRUE, status |-> status_code, detail |-> detail]
PyException(msg) == [http |-> FALSE, status |-> 0, detail |-> <<msg>>]

\* str(e) of a raised exception, as a sequence of text chunks.
str_e(e) == IF e.http THEN <<"HTTPException: ">> \o e.detail ELSE e.detail

DbErrors == {"database connection lost"}
ProviderErrors == {"request timed out"}
ProviderTexts == {"### Summary A", "### Summary B"}

DetailTranscript == <<"transcript data for the given id not found">>
DetailVideo == <<"video not found">>
DetailMinutes == <<"minutes data not found">>
DetailForbidden == <<"no access permission to these minutes">>
ErrorPrefix == "error while generating the summary: "
AttributeErrorText == "'NoneType' object has no attribute 'text'"
IndexErrorText == "list index out of range"

Body(t) == IF t = 1 THEN "Meeting about budget." ELSE "Weekly sync."

VARIABLES
    db_transcripts,     \* id -> transcript row (content under "content" or "text")
    db_videos,          \* id -> video row
    db_minutes,         \* id -> minutes row
    db_summaries,       \* set of summary rows
    removals,           \* rows removed by another actor so far
    started,            \* invocations started so far
    pc,                 \* worker -> position in process_summary_generation
    req,                \* worker -> arguments of its invocation, n: how many it began
    transcript,         \* worker -> validate_access_permissions' transcript
    video,              \* worker -> validate_access_permissions' video
    transcript_content, \* worker -> the orchestrator's transcript_content
    summary_content,    \* worker -> the orchestrator's summary_content
    outcome,            \* worker -> how the invocation ended
    calls,              \* worker -> external calls of the current invocation
    logs,               \* worker -> log entries of the current invocation
    writes              \* create_summary calls that returned, in order

vars == <<db_transcripts, db_videos, db_minutes, db_summaries, removals, started,
          pc, req, transcript, video, transcript_content, summary_content,
          outcome, calls, logs, writes>>

store == <<db_transcripts, db_videos, db_minutes, db_summaries>>

\* ------------------------------------------------------------- collaborators
\* db_control.crud: a lookup returns the row (here <<row>>) or None (<<>>).
get_transcript_by_id(id) ==
    IF id \in DOMAIN db_transcripts THEN <<db_transcripts[id]>> ELSE <<>>
get_video_by_id(id) == IF id \in DOMAIN db_videos THEN <<db_videos[id]>> ELSE <<>>
get_minutes(id) == IF id \in DOMAIN db_minutes THEN <<db_minutes[id]>> ELSE <<>>

SummariesOf(t) == {r \in db_summaries : r.transcript_id = t}

\* crud.create_summary, create-or-update: the row it leaves for the transcript.
SummaryRow(transcript_id, content) ==
    IF SummariesOf(transcript_id) # {}
    THEN [(CHOOSE r \in SummariesOf(transcript_id) : TRUE) EXCEPT !.content = content]
    ELSE [id |-> Cardinality(db_summaries) + 1,
          transcript_id |-> transcript_id, content |-> content]
create_summary(transcript_id, content) ==
    (db_summaries \ SummariesOf(transcript_id))
        \cup {SummaryRow(transcript_id, content)}

\* What client.chat.completions.create can do: answer with choices, or raise.
Completion(choices) == [raised |-> FALSE, msg |-> "", choices |-> choices]
ProviderRaises(msg) == [raised |-> TRUE, msg |-> msg, choices |-> <<>>]
ProviderResponses ==
    {Completion(<<t>>) : t \in ProviderTexts} \cup {Completion(<<>>)}
        \cup {ProviderRaises(m) : m \in ProviderErrors}

\* ------------------------------------------------------------------ results
Ok(v) == [ok |-> TRUE, value |-> v, exc |-> PyException("")]
Err(e) == [ok |-> FALSE, value |-> "", exc |-> e]

Running == [kind |-> "running", value |-> "", status |-> 0, detail |-> <<>>]
Returned(v) == [kind |-> "returned", value |-> v, status |-> 0, detail |-> <<>>]
Raised(e) == [kind |-> "raised", value |-> "", status |-> e.status, detail |-> e.detail]

\* An external call: its arguments, what it returned (<<>>: None or nothing) and
\* the message of what it raised ("": it returned).
Call(op, arg, ret, error) ==
    [op |-> op, arg |-> arg, ret |-> ret, raised |-> error # "", error |-> error]
Log(level, event, ids) == [level |-> level, event |-> event, ids |-> ids]

\* ----------------------------------------------------------- pure code parts
\* Faulty variants of line 54: ids compared as numbers, compared without str(),
\* and the test inverted.
owner_mismatch_numeric(minutes, user_id) ==
    Value(str(minutes.user_id)) # Value(str(user_id))
owner_mismatch_raw(minutes, user_id) == minutes.user_id # user_id
owner_mismatch_inverted(minutes, user_id) == str(minutes.user_id) = str(user_id)

\* Line 54: the ownership test of validate_access_permissions.
owner_mismatch(minutes, user_id) == str(minutes.user_id) # str(user_id)

\* Faulty variant of line 116: a missing row answered with the validator's 404.
read_transcript_content_rechecked(fetched) ==
    IF fetched = <<>> THEN Err(HTTPException(404, DetailTranscript))
    ELSE IF "content" \in DOMAIN fetched[1] THEN Ok(fetched[1].content)
    ELSE Ok(fetched[1].text)

\* Line 116: transcript.content if hasattr(transcript, 'content') else transcript.text
read_transcript_content(fetched) ==
    IF fetched = <<>> THEN Err(PyException(AttributeErrorText))
    ELSE IF "content" \in DOMAIN fetched[1] THEN Ok(fetched[1].content)
    ELSE Ok(fetched[1].text)

\* Faulty variant of lines 74-91: a response without choices taken as an empty
\* summary.
generate_summary_content_empty_ok(response) ==
    IF response.raised
    THEN Err(HTTPException(500, <<ErrorPrefix>> \o str_e(PyException(response.msg))))
    ELSE IF response.choices = <<>> THEN Ok("")
    ELSE Ok(response.choices[1])

\* Lines 74-91: the first choice's content, or anything raised turned into a 500.
generate_summary_content(response) ==
    IF response.raised
    THEN Err(HTTPException(500, <<ErrorPrefix>> \o str_e(PyException(response.msg))))
    ELSE IF response.choices = <<>>
    THEN Err(HTTPException(500, <<ErrorPrefix>> \o str_e(PyException(IndexErrorText))))
    ELSE Ok(response.choices[1])

\* Faulty variants of lines 128-136: the "except HTTPException: raise" clause
\* missing, and the "except Exception" clause missing.
except_wraps_everything(e) == HTTPException(500, <<ErrorPrefix>> \o str_e(e))
except_passes_everything(e) == e

\* Lines 128-136: an HTTPException passes, anything else becomes a 500.
process_summary_generation_except(e) ==
    IF e.http THEN e ELSE HTTPException(500, <<ErrorPrefix>> \o str_e(e))

\* The error log of lines 130-132, written only when the exception is wrapped.
except_logs(e, ls) ==
    IF e.http THEN ls
    ELSE Append(ls, Log("error", "generation_error", <<ErrorPrefix>> \o str_e(e)))

\* The invocation of worker p ends by raising e out of the try block.
Fail(p, e, cs, ls) ==
    /\ pc' = [pc EXCEPT ![p] = "done"]
    /\ outcome' = [outcome EXCEPT ![p] = Raised(process_summary_generation_except(e))]
    /\ calls' = [calls EXCEPT ![p] = cs]
    /\ logs' = [logs EXCEPT ![p] = except_logs(e, ls)]

\* The invocation of worker p goes on to position next.
Proceed(p, next, cs, ls) ==
    /\ pc' = [pc EXCEPT ![p] = next]
    /\ outcome' = [outcome EXCEPT ![p] = Running]
    /\ calls' = [calls EXCEPT ![p] = cs]
    /\ logs' = [logs EXCEPT ![p] = ls]

\* ------------------------------------------------------------------ initial
TranscriptRows(t) ==
    {[video_id |-> v, content |-> Body(t)] : v \in VideoIds}
        \cup {[video_id |-> v, text |-> Body(t)] : v \in VideoIds}
VideoRows == {[minutes_id |-> m] : m \in MinutesIds}
MinutesRows == {[user_id |-> u] : u \in OwnerIds}

Tables(ids, rows) == UNION {[S -> rows] : S \in SUBSET ids}

Init ==
    /\ db_transcripts \in
           {f \in Tables(TranscriptIds, UNION {TranscriptRows(t) : t \in TranscriptIds}) :
                \A t \in DOMAIN f : f[t] \in TranscriptRows(t)}
    /\ db_videos \in Tables(VideoIds, VideoRows)
    /\ db_minutes \in Tables(MinutesIds, MinutesRows)
    /\ db_summaries = {}
    /\ removals = 0
    /\ started = 0
    /\ pc = [p \in Workers |-> "idle"]
    /\ req = [p \in Workers |-> [n |-> 0, transcript_id |-> 1, user_id |-> IntId(1)]]
    /\ transcript = [p \in Workers |-> <<>>]
    /\ video = [p \in Workers |-> <<>>]
    /\ transcript_content = [p \in Workers |-> <<>>]
    /\ summary_content = [p \in Workers |-> <<>>]
    /\ outcome = [p \in Workers |-> Running]
    /\ calls = [p \in Workers |-> <<>>]
    /\ logs = [p \in Workers |-> <<>>]
    /\ writes = <<>>

\* ------------------------------------------------------------------ actions
\* Lines 108-112 and 29-35: the request is logged and the validator looks the
\* transcript up; the lookup may raise, return None or return the row.
Invoke(p) ==
    /\ pc[p] \in {"idle", "done"}
    /\ started < MaxInvocations
    /\ started' = started + 1
    /\ \E transcript_id \in TranscriptIds, user_id \in RequesterIds :
         LET ls == <<Log("info", "request", <<transcript_id, user_id>>)>>
             op == "get_transcript_by_id"
             found == get_transcript_by_id(transcript_id)
         IN
         /\ req' = [req EXCEPT ![p] =
                        [n |-> req[p].n + 1, transcript_id |-> transcript_id,
                         user_id |-> user_id]]
         /\ video' = [video EXCEPT ![p] = <<>>]
         /\ transcript_content' = [transcript_content EXCEPT ![p] = <<>>]
         /\ summary_content' = [summary_content EXCEPT ![p] = <<>>]
         /\ \/ \E m \in DbErrors :
                 /\ Fail(p, PyException(m), <<Call(op, <<transcript_id>>, <<>>, m)>>, ls)
                 /\ transcript' = [transcript EXCEPT ![p] = <<>>]
            \/ /\ transcript' = [transcript EXCEPT ![p] = found]
               /\ LET cs == <<Call(op, <<transcript_id>>, found, "")>> IN
                  IF found = <<>>
                  THEN Fail(p, HTTPException(404, DetailTranscript), cs,
                            Append(ls, Log("error", "transcript_not_found",
                                           <<transcript_id>>)))
                  ELSE Proceed(p, "get_video", cs, ls)
    /\ UNCHANGED <<store, removals, writes>>

\* Faulty variant of lines 38-43: the rest of the validation nested under
\* "if video:", so that a missing video lets the request through.
GetVideo_fail_open(p) ==
    /\ pc[p] = "get_video"
    /\ LET op == "get_video_by_id"
           id == transcript[p][1].video_id
           found == get_video_by_id(id)
       IN
       \/ \E m \in DbErrors :
            /\ Fail(p, PyException(m), Append(calls[p], Call(op, <<id>>, <<>>, m)),
                    logs[p])
            /\ video' = video
       \/ /\ video' = [video EXCEPT ![p] = found]
          /\ LET cs == Append(calls[p], Call(op, <<id>>, found, "")) IN
             IF found = <<>>
             THEN Proceed(p, "refetch", cs, logs[p])
             ELSE Proceed(p, "get_minutes", cs, logs[p])
    /\ UNCHANGED <<store, removals, started, req, transcript, transcript_content,
                   summary_content, writes>>

\* Lines 38-43: the video the transcript references.
GetVideo(p) ==
    /\ pc[p] = "get_video"
    /\ LET op == "get_video_by_id"
           id == transcript[p][1].video_id
           found == get_video_by_id(id)
       IN
       \/ \E m \in DbErrors :
            /\ Fail(p, PyException(m), Append(calls[p], Call(op, <<id>>, <<>>, m)),
                    logs[p])
            /\ video' = video
       \/ /\ video' = [video EXCEPT ![p] = found]
          /\ LET cs == Append(calls[p], Call(op, <<id>>, found, "")) IN
             IF found = <<>>
             THEN Fail(p, HTTPException(404, DetailVideo), cs, logs[p])
             ELSE Proceed(p, "get_minutes", cs, logs[p])
    /\ UNCHANGED <<store, removals, started, req, transcript, transcript_content,
                   summary_content, writes>>

\* Lines 46-59: the minutes the video references, then the ownership test.
GetMinutes(p) ==
    /\ pc[p] = "get_minutes"
    /\ LET op == "get_minutes"
           id == video[p][1].minutes_id
           found == get_minutes(id)
       IN
       \/ \E m \in DbErrors :
            Fail(p, PyException(m), Append(calls[p], Call(op, <<id>>, <<>>, m)),
                 logs[p])
       \/ LET cs == Append(calls[p], Call(op, <<id>>, found, ""))
              cmp == Call("owner_compare", <<>>, <<>>, "")
          IN
          IF found = <<>>
          THEN Fail(p, HTTPException(404, DetailMinutes), cs,
                    Append(logs[p], Log("error", "minutes_not_found", <<id>>)))
          ELSE IF owner_mismatch(found[1], req[p].user_id)
          THEN Fail(p, HTTPException(403, DetailForbidden), Append(cs, cmp),
                    Append(logs[p], Log("error", "forbidden",
                                        <<found[1].user_id, req[p].user_id>>)))
          ELSE Proceed(p, "refetch", Append(cs, cmp), logs[p])
    /\ UNCHANGED <<store, removals, started, req, transcript, video,
                   transcript_content, summary_content, writes>>

\* Lines 115-116: the transcript is fetched again and its text read.
Refetch(p) ==
    /\ pc[p] = "refetch"
    /\ LET op == "get_transcript_by_id"
           id == req[p].transcript_id
           found == get_transcript_by_id(id)
           text == read_transcript_content(found)
       IN
       \/ \E m \in DbErrors :
            /\ Fail(p, PyException(m), Append(calls[p], Call(op, <<id>>, <<>>, m)),
                    logs[p])
            /\ transcript_content' = transcript_content
       \/ LET cs == Append(calls[p], Call(op, <<id>>, found, "")) IN
          IF text.ok
          THEN /\ Proceed(p, "generate", cs, logs[p])
               /\ transcript_content' = [transcript_content EXCEPT ![p] = <<text.value>>]
          ELSE /\ Fail(p, text.exc, cs, logs[p])
               /\ transcript_content' = transcript_content
    /\ UNCHANGED <<store, removals, started, req, transcript, video,
                   summary_content, writes>>

\* Lines 119-120 and 74-91: one provider call with the transcript's text; a
\* failure is logged by generate_summary_content before it raises its 500.
Generate(p) ==
    /\ pc[p] = "generate"
    /\ \E response \in ProviderResponses :
         LET r == generate_summary_content(response)
             cs == Append(calls[p],
                          Call("chat.completions.create", transcript_content[p],
                               response.choices, response.msg))
         IN
         IF r.ok
         THEN /\ Proceed(p, "save", cs,
                         Append(logs[p], Log("info", "summary_generated", <<>>)))
              /\ summary_content' = [summary_content EXCEPT ![p] = <<r.value>>]
         ELSE /\ Fail(p, r.exc, cs,
                      Append(logs[p], Log("error", "generation_error", r.exc.detail)))
              /\ summary_content' = summary_content
    /\ UNCHANGED <<store, removals, started, req, transcript, video,
                   transcript_content, writes>>

\* Faulty variant of line 123: the transcript's text stored as the summary.
create_summary_args_transcript(p) == <<req[p].transcript_id, transcript_content[p][1]>>

\* Line 123: what the orchestrator hands to crud.create_summary.
create_summary_args(p) == <<req[p].transcript_id, summary_content[p][1]>>

\* Lines 123-126: the summary is stored and the stored text returned.
Save(p) ==
    /\ pc[p] = "save"
    /\ LET op == "create_summary"
           args == create_summary_args(p)
           summary == SummaryRow(args[1], args[2])
       IN
       \/ \E m \in DbErrors :
            /\ Fail(p, PyException(m), Append(calls[p], Call(op, args, <<>>, m)),
                    logs[p])
            /\ UNCHANGED <<db_summaries, writes>>
       \/ /\ db_summaries' = create_summary(args[1], args[2])
          /\ writes' = Append(writes, [by |-> p, transcript_id |-> req[p].transcript_id,
                                       generated |-> calls[p][Len(calls[p])].ret[1]])
          /\ pc' = [pc EXCEPT ![p] = "done"]
          /\ calls' = [calls EXCEPT ![p] = Append(@, Call(op, args, <<summary>>, ""))]
          /\ logs' = [logs EXCEPT ![p] =
                          Append(@, Log("info", "summary_saved", <<summary.id>>))]
          /\ outcome' = [outcome EXCEPT ![p] = Returned(summary.content)]
    /\ UNCHANGED <<db_transcripts, db_videos, db_minutes, removals, started, req,
                   transcript, video, transcript_content, summary_content>>

\* Another actor removes a transcript row.
RemoveTranscript ==
    /\ removals < MaxRemovals
    /\ \E t \in DOMAIN db_transcripts :
         db_transcripts' = [u \in DOMAIN db_transcripts \ {t} |-> db_transcripts[u]]
    /\ removals' = removals + 1
    /\ UNCHANGED <<db_videos, db_minutes, db_summaries, started, pc, req, transcript,
                   video, transcript_content, summary_content, outcome, calls, logs,
                   writes>>

Next ==
    \/ \E p \in Workers : Invoke(p)
    \/ \E p \in Workers : GetVideo(p)
    \/ \E p \in Workers : GetMinutes(p)
    \/ \E p \in Workers : Refetch(p)
    \/ \E p \in Workers : Generate(p)
    \/ \E p \in Workers : Save(p)
    \/ RemoveTranscript

Spec == Init /\ [][Next]_vars

\* =================================================================== claims
Provider == "chat.completions.create"
CallsOf(p, op) == {i \in 1..Len(calls[p]) : calls[p][i].op = op}
NoDownstream(p) == CallsOf(p, Provider) = {} /\ CallsOf(p, "create_summary") = {}
EndedWith(p, status_code, detail) ==
    pc[p] = "done" /\ outcome[p] = Raised(HTTPException(status_code, detail))

\* Call i of worker p's invocation was op, and it returned a row.
Found(p, i, op) ==
    /\ Len(calls[p]) >= i
    /\ calls[p][i].op = op
    /\ ~calls[p][i].raised
    /\ calls[p][i].ret # <<>>
\* Call i of worker p's invocation was op, and it returned None.
Absent(p, i, op) ==
    /\ Len(calls[p]) >= i
    /\ calls[p][i].op = op
    /\ ~calls[p][i].raised
    /\ calls[p][i].ret = <<>>

\* The validator's three lookups of worker p's invocation all returned a row.
ChainResolved(p) ==
    /\ Found(p, 1, "get_transcript_by_id")
    /\ Found(p, 2, "get_video_by_id")
    /\ Found(p, 3, "get_minutes")
OwnerOf(p) == calls[p][3].ret[1].user_id

\* C1: an invocation whose transcript lookup returns None ends with the 404 for
\* the transcript, and makes no other external call: no provider call and no
\* create_summary call.
C1_AbsentTranscript404 ==
    \A p \in Workers :
        Absent(p, 1, "get_transcript_by_id") =>
            /\ EndedWith(p, 404, DetailTranscript)
            /\ calls[p][1].arg = <<req[p].transcript_id>>
            /\ Len(calls[p]) = 1
            /\ NoDownstream(p)
C1_Witness ==
    \E p \in Workers :
        /\ Absent(p, 1, "get_transcript_by_id")
        /\ pc[p] = "done"
        /\ DOMAIN db_videos # {} /\ DOMAIN db_minutes # {}

\* C2: when transcript, video and minutes resolve and str(owner) differs from
\* str(requester), the invocation ends with the 403 and makes no provider call
\* and no create_summary call.
C2_OwnerMismatch403 ==
    \A p \in Workers :
        (ChainResolved(p) /\ str(OwnerOf(p)) # str(req[p].user_id)) =>
            /\ EndedWith(p, 403, DetailForbidden)
            /\ NoDownstream(p)
            /\ Len(calls[p]) = 4
C2_Witness ==
    \E p \in Workers :
        /\ ChainResolved(p)
        /\ str(OwnerOf(p)) # str(req[p].user_id)
        /\ Value(str(OwnerOf(p))) = Value(str(req[p].user_id))
        /\ pc[p] = "done"

\* The text of a transcript row, whichever field holds it.
TextOf(row) == IF "content" \in DOMAIN row THEN row.content ELSE row.text

\* C3: when the chain resolves and str(owner) = str(requester), validation
\* raises nothing; when the provider then returns text T for the transcript's
\* content, it was called exactly once, with that content; create_summary is
\* called exactly once, after it, with (transcript id, T); and the invocation
\* returns the text of the summary create_summary gave back, which is T.
C3_HappyPath ==
    \A p \in Workers :
        (ChainResolved(p) /\ str(OwnerOf(p)) = str(req[p].user_id)) =>
            /\ outcome[p].status \notin {403, 404}
            /\ Len(calls[p]) = 4 => (pc[p] = "refetch" /\ outcome[p] = Running)
            /\ \A i \in CallsOf(p, Provider) :
                 (~calls[p][i].raised /\ calls[p][i].ret # <<>>) =>
                    LET T == calls[p][i].ret[1] IN
                    /\ CallsOf(p, Provider) = {6}
                    /\ Found(p, 5, "get_transcript_by_id")
                    /\ calls[p][6].arg = <<TextOf(calls[p][5].ret[1])>>
                    /\ calls[p][6].arg = <<Body(req[p].transcript_id)>>
                    /\ pc[p] \in {"save", "done"}
                    /\ pc[p] = "save" => CallsOf(p, "create_summary") = {}
                    /\ pc[p] = "done" =>
                         /\ CallsOf(p, "create_summary") = {7}
                         /\ calls[p][7].arg = <<req[p].transcript_id, T>>
                         /\ ~calls[p][7].raised =>
                              /\ outcome[p] = Returned(T)
                              /\ calls[p][7].ret[1].content = T
                              /\ calls[p][7].ret[1].transcript_id = req[p].transcript_id
C3_Witness ==
    \E p \in Workers :
        /\ ChainResolved(p)
        /\ OwnerOf(p) = IntId(12) /\ req[p].user_id = StrId(<<1, 2>>)
        /\ "text" \in DOMAIN calls[p][1].ret[1]
        /\ pc[p] = "done"
        /\ outcome[p] = Returned("### Summary B")

\* C4: when the provider call raises, or answers with no first choice, the
\* invocation ends with a 500 whose detail holds the original message, the
\* provider was called once only, and create_summary is not called.
C4_ProviderFailure500 ==
    \A p \in Workers :
        \A i \in CallsOf(p, Provider) :
            (calls[p][i].raised \/ calls[p][i].ret = <<>>) =>
                LET msg == IF calls[p][i].raised THEN calls[p][i].error
                           ELSE IndexErrorText
                IN
                /\ pc[p] = "done"
                /\ outcome[p].kind = "raised"
                /\ outcome[p].status = 500
                /\ \E k \in 1..Len(outcome[p].detail) : outcome[p].detail[k] = msg
                /\ CallsOf(p, Provider) = {i}
                /\ CallsOf(p, "create_summary") = {}
C4_Witness ==
    /\ \E p \in Workers :
         \E i \in CallsOf(p, Provider) : calls[p][i].raised /\ pc[p] = "done"
    /\ \E p \in Workers :
         \E i \in CallsOf(p, Provider) :
            ~calls[p][i].raised /\ calls[p][i].ret = <<>> /\ pc[p] = "done"

\* The external calls of an invocation, in the order the code makes them.
CallOrder ==
    <<"get_transcript_by_id", "get_video_by_id", "get_minutes", "owner_compare",
      "get_transcript_by_id", Provider, "create_summary">>

\* C5: the validator's steps run in the order transcript, video, minutes, owner
\* comparison, and stop at the first that fails: a missing video gives the 404
\* for the video and get_minutes is not called; missing minutes give the 404 for
\* the minutes and the owners are not compared; whatever the later rows hold.
C5_ShortCircuitOrder ==
    \A p \in Workers :
        /\ Len(calls[p]) <= Len(CallOrder)
        /\ \A i \in 1..Len(calls[p]) : calls[p][i].op = CallOrder[i]
        /\ \A i \in 1..Len(calls[p]) :
             (i < Len(calls[p]) /\ i # 4) => Found(p, i, CallOrder[i])
        /\ Absent(p, 2, "get_video_by_id") =>
             /\ Found(p, 1, "get_transcript_by_id")
             /\ calls[p][2].arg = <<calls[p][1].ret[1].video_id>>
             /\ EndedWith(p, 404, DetailVideo)
             /\ CallsOf(p, "get_minutes") = {}
             /\ Len(calls[p]) = 2
        /\ Absent(p, 3, "get_minutes") =>
             /\ Found(p, 2, "get_video_by_id")
             /\ calls[p][3].arg = <<calls[p][2].ret[1].minutes_id>>
             /\ EndedWith(p, 404, DetailMinutes)
             /\ CallsOf(p, "owner_compare") = {}
             /\ Len(calls[p]) = 3
C5_Witness ==
    \E p \in Workers :
        /\ Absent(p, 2, "get_video_by_id")
        /\ pc[p] = "done"
        /\ \E m \in DOMAIN db_minutes :
             str(db_minutes[m].user_id) # str(req[p].user_id)

\* The last log entry of worker p's invocation is the error log of detail.
LoggedLast(p, detail) ==
    /\ logs[p] # <<>>
    /\ logs[p][Len(logs[p])].level = "error"
    /\ logs[p][Len(logs[p])].event = "generation_error"
    /\ logs[p][Len(logs[p])].ids = detail
GenerationErrorLogs(p) ==
    {i \in 1..Len(logs[p]) : logs[p][i].event = "generation_error"}

\* C6: the validator's 404/403 and the generator's 500 reach the caller as they
\* were raised, not wrapped again; whatever else is raised inside the
\* orchestrator (by a lookup, the re-fetch or create_summary) becomes a 500 whose
\* detail carries the original message, logged before it is raised; so every
\* invocation ends with a returned text or an HTTPException of 404, 403 or 500.
C6_FailureSemantics ==
    \A p \in Workers :
        pc[p] = "done" =>
            LET last == calls[p][Len(calls[p])] IN
            /\ outcome[p].kind \in {"returned", "raised"}
            /\ outcome[p].kind = "raised" => outcome[p].status \in {404, 403, 500}
            /\ outcome[p].kind = "returned" => outcome[p].value \in ProviderTexts
            /\ Absent(p, 1, "get_transcript_by_id") =>
                 outcome[p] = Raised(HTTPException(404, DetailTranscript))
            /\ Absent(p, 2, "get_video_by_id") =>
                 outcome[p] = Raised(HTTPException(404, DetailVideo))
            /\ Absent(p, 3, "get_minutes") =>
                 outcome[p] = Raised(HTTPException(404, DetailMinutes))
            /\ (last.op = "owner_compare") =>
                 outcome[p] = Raised(HTTPException(403, DetailForbidden))
            /\ (last.op \in {"get_transcript_by_id", "get_video_by_id", "get_minutes",
                             "owner_compare"} /\ ~last.raised /\ Len(calls[p]) < 5) =>
                 GenerationErrorLogs(p) = {}
            /\ (last.op = Provider) =>
                 /\ outcome[p] =
                        Raised(HTTPException(500,
                            <<ErrorPrefix, IF last.raised THEN last.error
                                           ELSE IndexErrorText>>))
                 /\ LoggedLast(p, outcome[p].detail)
                 /\ Cardinality(GenerationErrorLogs(p)) = 1
            /\ (last.op # Provider /\ last.raised) =>
                 /\ last.error \in DbErrors
                 /\ outcome[p] = Raised(HTTPException(500, <<ErrorPrefix, last.error>>))
                 /\ LoggedLast(p, outcome[p].detail)
            /\ Absent(p, 5, "get_transcript_by_id") =>
                 /\ outcome[p] =
                        Raised(HTTPException(500, <<ErrorPrefix, AttributeErrorText>>))
                 /\ LoggedLast(p, outcome[p].detail)
C6_Witness ==
    /\ \E p \in Workers :
         /\ pc[p] = "done" /\ Len(calls[p]) = 7
         /\ calls[p][7].raised /\ outcome[p].status = 500
    /\ \E p \in Workers :
         /\ pc[p] = "done" /\ Len(calls[p]) = 6 /\ outcome[p].status = 500

\* Worker p takes a step of its invocation.
StepOf(p) == pc'[p] # pc[p] \/ req'[p] # req[p]
\* Worker p's step is the return of line 126, after create_summary came back.
Commits(p) == pc[p] = "save" /\ pc'[p] = "done" /\ outcome'[p].kind = "returned"

\* C7: invocations leave transcripts, videos and minutes as they are; an
\* invocation changes the store only by its create_summary call, its last step,
\* after validation, re-fetch and generation succeeded; a step that is not that
\* one, and so every failing invocation, leaves the whole store as it was; and a
\* summary is written for a transcript only by an invocation whose requester
\* owned the transcript's chain when the validator read it.
C7_FrameAndCommit ==
    [][/\ removals' = removals => UNCHANGED <<db_transcripts, db_videos, db_minutes>>
       /\ \A p \in Workers : (StepOf(p) /\ ~Commits(p)) => UNCHANGED store
       /\ \A p \in Workers : (StepOf(p) /\ outcome'[p].kind = "raised") => UNCHANGED store
       /\ \A p \in Workers :
            Commits(p) =>
                /\ ChainResolved(p)
                /\ calls[p][1].arg = <<req[p].transcript_id>>
                /\ calls[p][2].arg = <<calls[p][1].ret[1].video_id>>
                /\ calls[p][3].arg = <<calls[p][2].ret[1].minutes_id>>
                /\ str(OwnerOf(p)) = str(req[p].user_id)
                /\ Found(p, 5, "get_transcript_by_id")
                /\ Found(p, 6, Provider)
                /\ Len(calls[p]) = 6
                /\ calls'[p][7].op = "create_summary"
                /\ \A r \in (db_summaries' \ db_summaries) \cup (db_summaries \ db_summaries') :
                     r.transcript_id = req[p].transcript_id
       /\ db_summaries' # db_summaries => \E p \in Workers : Commits(p)
      ]_vars
C7_Witness ==
    /\ \E p \in Workers : pc[p] = "done" /\ outcome[p].kind = "raised" /\ Len(calls[p]) >= 5
    /\ \E p \in Workers : pc[p] = "done" /\ outcome[p].kind = "returned"
    /\ removals = 1
    /\ db_summaries # {}

\* The create_summary calls for transcript t that returned, in order.
WritesTo(t) == SelectSeq(writes, LAMBDA w : w.transcript_id = t)

\* C8: with create_summary as create-or-update, a transcript has at most one
\* summary, and once invocations have written for it exactly one, holding the
\* text generated by the invocation whose create_summary call came last; every
\* invocation that returns has called the provider exactly once.  (That an
\* earlier writer can have returned a text no longer stored is C8_Witness.)
C8_LastWriteWins ==
    /\ \A t \in TranscriptIds :
         /\ Cardinality(SummariesOf(t)) <= 1
         /\ WritesTo(t) = <<>> => SummariesOf(t) = {}
         /\ WritesTo(t) # <<>> =>
              \E r \in SummariesOf(t) :
                 /\ SummariesOf(t) = {r}
                 /\ r.content = WritesTo(t)[Len(WritesTo(t))].generated
    /\ \A p \in Workers :
         outcome[p].kind = "returned" =>
            /\ Cardinality(CallsOf(p, Provider)) = 1
            /\ \E i \in 1..Len(writes) :
                 /\ writes[i].by = p
                 /\ writes[i].transcript_id = req[p].transcript_id
                 /\ writes[i].generated = outcome[p].value
C8_Witness ==
    \E p, q \in Workers :
        /\ p # q
        /\ outcome[p].kind = "returned" /\ outcome[q].kind = "returned"
        /\ req[p].transcript_id = req[q].transcript_id
        /\ Len(writes) = 2 /\ writes[1].by = p /\ writes[2].by = q
        /\ outcome[p].value # outcome[q].value
        /\ \E r \in SummariesOf(req[p].transcript_id) : r.content # outcome[p].value

\* Worker p's invocation ended inside validate_access_permissions, with the
\* 404 or 403 it raises.
ValidatorFailed(p) ==
    /\ pc[p] = "done"
    /\ \/ Absent(p, 1, "get_transcript_by_id")
       \/ Absent(p, 2, "get_video_by_id")
       \/ Absent(p, 3, "get_minutes")
       \/ (Len(calls[p]) = 4 /\ calls[p][4].op = "owner_compare")

\* C9: on each of the validator's four failing outcomes an error log entry
\* naming the ids involved is emitted before the HTTPException is raised.
C9_EveryValidatorFailureLogged ==
    \A p \in Workers :
        ValidatorFailed(p) =>
            /\ outcome[p].status \in {404, 403}
            /\ logs[p][Len(logs[p])].level = "error"
            /\ logs[p][Len(logs[p])].ids # <<>>

\* C10: when the transcript resolved and the requester owned it at validation
\* but the second get_transcript_by_id returns None, the invocation ends with a
\* 500, not a 404, and neither the provider nor create_summary is called.
C10_RefetchNone500 ==
    \A p \in Workers :
        Absent(p, 5, "get_transcript_by_id") =>
            /\ ChainResolved(p)
            /\ str(OwnerOf(p)) = str(req[p].user_id)
            /\ pc[p] = "done"
            /\ outcome[p].kind = "raised"
            /\ outcome[p].status = 500
            /\ outcome[p].status # 404
            /\ NoDownstream(p)
C10_Witness ==
    \E p \in Workers :
        /\ Absent(p, 5, "get_transcript_by_id")
        /\ pc[p] = "done"
        /\ removals = 1
        /\ req[p].transcript_id \notin DOMAIN db_transcripts

====
